---------------------------- MODULE Spec2Model ----------------------------
(***************************************************************************)
(* A model of the REST facade in src/main.py: eight FastAPI handlers over  *)
(* a MongoDB store (one database per platform, collections articles,       *)
(* comments, replies), with the public projections of src/models.py.       *)
(*                                                                         *)
(* Every `await` of a handler is one action, so requests interleave        *)
(* exactly where the event loop may switch tasks.  The store is the only   *)
(* state shared between requests.                                          *)
(***************************************************************************)
EXTENDS Integers, Sequences, FiniteSets, TLC

(* ------------------------------ bounds -------------------------------- *)

\* Number of HTTP requests served in one behaviour (all may overlap).
NumRequests == 2

(* ------------------------------ inputs -------------------------------- *)

Platforms  == {"p1", "p2"}
ArticleIds == {"a1", "a2"}
CommentIds == {"c1"}
ReplyIds   == {"r1", "r2"}
Urls       == {"u1", "u2"}
\* One value stands for the required fields that travel together unchanged
\* (title/content/created_at of an article; content/created_at/author of a
\* comment or reply).
Contents   == {"x", "y"}

\* Python's None, for the optional fields of a payload or a stored document.
None == "None"
\* A field a request of that kind does not carry.
Unused == "-"

Requests == 1..NumRequests

Kinds == {"create_article", "create_comment", "create_reply", "get_replies",
          "get_comment", "get_comments", "get_article", "get_articles"}

CreateKinds == {"create_article", "create_comment", "create_reply"}

(* ------------------------------ state --------------------------------- *)

VARIABLES
    store,      \* platform -> [articles, comments, replies: Seq(doc), indexes: set]
    nextOid,    \* the next ObjectId the store hands out
    clients,    \* sequence of client states ("open"/"closed"), one per AsyncMongoClient
    req,        \* request -> its path parameters and body
    pc,         \* request -> the await it is suspended at
    client,     \* request -> handle (index into clients) injected by Depends(get_client), 0 = none yet
    loc,        \* request -> the handler's locals `article` and `comment` (<<>> = None, <<doc>> = found)
    outcome,    \* request -> the HTTP response (status 0 = not produced yet)
    hist        \* request -> what was true when it arrived (history, read by no action)

vars == <<store, nextOid, clients, req, pc, client, loc, outcome, hist>>

(* ------------------------- models.py: DTOs ----------------------------- *)

\* NewArticleDto: id, title, created_at, content, url.
NewArticleDto ==
    [id : ArticleIds, url : Urls, content : Contents,
     likes : {Unused}, dislikes : {Unused}, reaction_type : {Unused}]

\* NewCommentDto: id, content, created_at, author, likes/dislikes/reaction_type
\* defaulting to None.  It has no attribute `mark`.
NewCommentDto ==
    [id : CommentIds, url : {Unused}, content : Contents,
     likes : {None}, dislikes : {None}, reaction_type : {None}]

\* NewReplyDto: same fields as NewCommentDto.
NewReplyDto ==
    [id : ReplyIds, url : {Unused}, content : Contents,
     likes : {None}, dislikes : {None}, reaction_type : {None}]

\* A body that fails pydantic validation (a missing or ill-typed field).
InvalidBody ==
    [id |-> Unused, url |-> Unused, content |-> Unused,
     likes |-> Unused, dislikes |-> Unused, reaction_type |-> Unused]

\* The attributes a NewCommentDto instance has.
NewCommentDtoFields == {"id", "content", "created_at", "author", "likes", "dislikes", "reaction_type"}

(* ----------------------- models.py: projections ------------------------ *)

\* article_mongo_model_to_article: reads article_id, url, title, created_at, content.
ArticleKeys == {"article_id", "url", "content"}
article_mongo_model_to_article(article) ==
    [id |-> article.article_id, url |-> article.url, content |-> article.content]

\* comment_mongo_model_to_comment: subscripts comment_id, content, created_at,
\* author, likes, reaction_type, dislikes (KeyError when one is missing).
CommentKeys == {"comment_id", "content", "likes", "reaction_type", "dislikes"}
comment_mongo_model_to_comment(comment, article_id) ==
    [id |-> comment.comment_id, article_id |-> article_id,
     content |-> comment.content, likes |-> comment.likes,
     reaction_type |-> comment.reaction_type, dislikes |-> comment.dislikes]

\* reply_mongo_model_to_reply: subscripts reply_id, content, created_at, author,
\* likes, dislikes, reaction_type (KeyError when one is missing).
ReplyKeys == {"reply_id", "content", "likes", "dislikes", "reaction_type"}
reply_mongo_model_to_reply(reply, article_id, comment_id) ==
    [id |-> reply.reply_id, article_id |-> article_id, comment_id |-> comment_id,
     content |-> reply.content, likes |-> reply.likes,
     dislikes |-> reply.dislikes, reaction_type |-> reply.reaction_type]

\* dict subscripting succeeds for every key read.
HasKeys(doc, keys) == keys \subseteq DOMAIN doc

(* --------------------------- responses --------------------------------- *)

Pending == [status |-> 0, detail |-> "", exists |-> FALSE, items |-> <<>>, index |-> ""]

\* ArticleMutationResponse / CommentMutationResponse / ReplyMutationResponse
\* (success=True, exists=e) under status_code=201.
MutationResponse(e) == [status |-> 201, detail |-> "success", exists |-> e, items |-> <<>>, index |-> ""]

\* raise HTTPException(status_code=404, detail=d)
NotFound(d) == [status |-> 404, detail |-> d, exists |-> FALSE, items |-> <<>>, index |-> ""]

\* A GET handler's return value (one record or a list) under status 200.
Ok(items) == [status |-> 200, detail |-> "ok", exists |-> FALSE, items |-> items, index |-> ""]

\* An exception no handler catches: the framework answers 500.
ServerError(e) == [status |-> 500, detail |-> e, exists |-> FALSE, items |-> <<>>, index |-> ""]

\* pymongo's DuplicateKeyError (E11000, naming the violated index), uncaught.
DuplicateKeyError(ix) ==
    [status |-> 500, detail |-> "DuplicateKeyError", exists |-> FALSE, items |-> <<>>,
     index |-> ix.name]

\* RequestValidationError: the body does not validate against the DTO.
Unprocessable == [status |-> 422, detail |-> "validation", exists |-> FALSE, items |-> <<>>, index |-> ""]

(* --------------------------- the store --------------------------------- *)

\* One fixed database for every platform.
Database_Shared(platform) == "p1"

\* client[platform]: the database a handler works on.
Database(platform) == platform

Collections == {"articles", "comments", "replies"}

EmptyDatabase == [articles |-> <<>>, comments |-> <<>>, replies |-> <<>>, indexes |-> {}]

Range(s) == {s[i] : i \in 1..Len(s)}

\* A query document matches a stored document when every field it names is equal.
Matches(doc, filter) ==
    \A k \in DOMAIN filter : k \in DOMAIN doc /\ doc[k] = filter[k]

\* collection.find(filter).to_list(None): every match, in storage order.
find(docs, filter) == SelectSeq(docs, LAMBDA d : Matches(d, filter))

\* collection.find_one(filter): <<>> for None, else <<the first match>>.
find_one(docs, filter) ==
    LET hits == find(docs, filter) IN IF hits = <<>> THEN <<>> ELSE <<Head(hits)>>

\* Two documents collide on an index when they agree on all its keys.
SameKey(ix, d, e) == \A k \in Range(ix.keys) : d[k] = e[k]

\* The unique indexes of collection coll that inserting doc would violate.
DuplicateKeys(db, coll, doc) ==
    {ix \in db.indexes :
        /\ ix.coll = coll
        /\ ix.unique
        /\ \E d \in Range(db[coll]) : SameKey(ix, d, doc)}

\* A unique index cannot be built over a collection that already holds duplicates.
CanBuild(db, ix) ==
    \/ ~ix.unique
    \/ \A i, j \in 1..Len(db[ix.coll]) :
          i # j => ~SameKey(ix, db[ix.coll][i], db[ix.coll][j])

\* The index specifications the handlers pass to create_index.
\* create_index("article_id") with unique=True forgotten.
ArticleIdIndex_NotUnique ==
    [coll |-> "articles", keys |-> <<"article_id">>, unique |-> FALSE, name |-> "article_id_1"]

ArticleIdIndex ==
    [coll |-> "articles", keys |-> <<"article_id">>, unique |-> TRUE, name |-> "article_id_1"]
ArticleUrlIndex ==
    [coll |-> "articles", keys |-> <<"url">>, unique |-> TRUE, name |-> "url_1"]
CommentIndex ==
    [coll |-> "comments", keys |-> <<"article_id", "comment_id">>, unique |-> TRUE,
     name |-> "article_id_1_comment_id_1"]
ReplyIndex ==
    [coll |-> "replies", keys |-> <<"article_id", "comment_id", "reply_id">>, unique |-> TRUE,
     name |-> "article_id_1_comment_id_1_reply_id_1"]

(* ----------------------- documents the handlers insert ----------------- *)

\* create_article's insert_one argument (the store adds _id).
ArticleDocument(oid, payload) ==
    [_id |-> oid, article_id |-> payload.id, url |-> payload.url, content |-> payload.content]

\* The attributes create_comment reads from its payload to build the document.
CreateCommentReads == {"id", "content", "created_at", "author", "likes", "mark"}

\* create_comment's insert_one argument.
CommentDocument(oid, article, payload) ==
    [_id |-> oid, article_id |-> article._id, comment_id |-> payload.id,
     content |-> payload.content, likes |-> payload.likes, mark |-> None]

\* A slip in create_reply's document: the comment's _id stored as article_id.
ReplyDocument_WrongParent(oid, article, comment, payload) ==
    [_id |-> oid, article_id |-> comment._id, comment_id |-> comment._id,
     reply_id |-> payload.id, content |-> payload.content, likes |-> payload.likes]

\* create_reply's insert_one argument: no dislikes, no reaction_type.
ReplyDocument(oid, article, comment, payload) ==
    [_id |-> oid, article_id |-> article._id, comment_id |-> comment._id,
     reply_id |-> payload.id, content |-> payload.content, likes |-> payload.likes]

(* ------------------------------ requests ------------------------------- *)

Request(kind, platform, article_id, comment_id, valid, payload) ==
    [kind |-> kind, platform |-> platform, article_id |-> article_id,
     comment_id |-> comment_id, valid |-> valid, payload |-> payload]

\* The requests a client may send: every route, with a body that validates
\* against the route's DTO or one that does not.
RequestInputs ==
    UNION {
      {Request("create_article", p, Unused, Unused, TRUE, b) :
          p \in Platforms, b \in NewArticleDto},
      {Request("create_article", p, Unused, Unused, FALSE, InvalidBody) : p \in Platforms},
      {Request("create_comment", p, a, Unused, TRUE, b) :
          p \in Platforms, a \in ArticleIds, b \in NewCommentDto},
      {Request("create_comment", p, a, Unused, FALSE, InvalidBody) :
          p \in Platforms, a \in ArticleIds},
      {Request("create_reply", p, a, c, TRUE, b) :
          p \in Platforms, a \in ArticleIds, c \in CommentIds, b \in NewReplyDto},
      {Request("create_reply", p, a, c, FALSE, InvalidBody) :
          p \in Platforms, a \in ArticleIds, c \in CommentIds},
      {Request(k, p, a, c, TRUE, InvalidBody) :
          k \in {"get_replies", "get_comment"}, p \in Platforms,
          a \in ArticleIds, c \in CommentIds},
      {Request(k, p, a, Unused, TRUE, InvalidBody) :
          k \in {"get_comments", "get_article"}, p \in Platforms, a \in ArticleIds},
      {Request("get_articles", p, Unused, Unused, TRUE, InvalidBody) : p \in Platforms}
    }

NoRequest == Request(Unused, Unused, Unused, Unused, FALSE, InvalidBody)

NoLocals == [article |-> <<>>, comment |-> <<>>]

(* ------------------------------- Init ---------------------------------- *)

\* Documents written before this process started, shaped as ArticleMongoModel
\* and CommentMongoModel declare them (every field present).
StoredArticle == [_id |-> 1, article_id |-> "a1", url |-> "u1", content |-> "x"]
StoredComment ==
    [_id |-> 2, article_id |-> 1, comment_id |-> "c1", content |-> "x",
     likes |-> None, dislikes |-> None, reaction_type |-> None]

\* The database outlives the process: it is either empty, or platform p1
\* already holds one article with one comment.
InitialStores ==
    { [p \in Platforms |-> EmptyDatabase],
      [p \in Platforms |->
          IF p = "p1"
          THEN [EmptyDatabase EXCEPT !.articles = <<StoredArticle>>,
                                     !.comments = <<StoredComment>>]
          ELSE EmptyDatabase] }

Init ==
    /\ store \in InitialStores
    /\ nextOid = 3
    /\ clients = <<>>
    /\ req = [r \in Requests |-> NoRequest]
    /\ pc = [r \in Requests |-> "idle"]
    /\ client = [r \in Requests |-> 0]
    /\ loc = [r \in Requests |-> NoLocals]
    /\ outcome = [r \in Requests |-> Pending]
    /\ hist = [r \in Requests |-> [before |-> {}, fresh |-> FALSE]]

(* --------------------------- common steps ------------------------------ *)

\* The database the request's handler works on.
Db(r) == store[Database(req[r].platform)]

Goto(r, step) == pc' = [pc EXCEPT ![r] = step]

\* The handler returns or raises: the response is decided, and what is left
\* is the exit of the get_client dependency.
Respond(r, out) ==
    /\ outcome' = [outcome EXCEPT ![r] = out]
    /\ pc' = [pc EXCEPT ![r] = "exit"]

FirstStep(kind) ==
    CASE kind = "create_article" -> "ca_index_id"
      [] kind = "create_comment" -> "cc_index"
      [] kind = "create_reply"   -> "cr_index"
      [] kind = "get_replies"    -> "gr_article"
      [] kind = "get_comment"    -> "gc_article"
      [] kind = "get_comments"   -> "gcs_article"
      [] kind = "get_article"    -> "ga_find"
      [] kind = "get_articles"   -> "gas_list"

\* Whether, in database db, every ancestor on q's path exists and no record
\* holds q's natural key under that parent (recorded in hist on arrival).
Fresh(db, q) ==
    LET arts == find(db.articles, [article_id |-> q.article_id])
        coms(a) == find(db.comments, [article_id |-> a._id, comment_id |-> q.comment_id])
    IN CASE q.kind = "create_article" ->
              find(db.articles, [article_id |-> q.payload.id]) = <<>>
         [] q.kind = "create_comment" ->
              /\ arts # <<>>
              /\ find(db.comments, [article_id |-> arts[1]._id,
                                    comment_id |-> q.payload.id]) = <<>>
         [] q.kind = "create_reply" ->
              /\ arts # <<>>
              /\ coms(arts[1]) # <<>>
              /\ find(db.replies, [article_id |-> arts[1]._id,
                                   comment_id |-> coms(arts[1])[1]._id,
                                   reply_id |-> q.payload.id]) = <<>>
         [] OTHER -> FALSE

\* get_client up to its yield, then the framework's validation of the body:
\* a new AsyncMongoClient is opened for this request; a body that does not
\* validate is answered 422 without the handler being called.
Arrive(r, q) ==
    /\ pc[r] = "idle"
    /\ \A s \in Requests : s < r => pc[s] # "idle"
    /\ req' = [req EXCEPT ![r] = q]
    /\ clients' = Append(clients, "open")
    /\ client' = [client EXCEPT ![r] = Len(clients) + 1]
    /\ hist' = [hist EXCEPT ![r] =
                  [before |-> {s \in Requests : pc[s] = "done"},
                   fresh |-> Fresh(store[Database(q.platform)], q)]]
    /\ IF q.valid
       THEN Goto(r, FirstStep(q.kind)) /\ UNCHANGED outcome
       ELSE Respond(r, Unprocessable)
    /\ UNCHANGED <<store, nextOid, loc>>

\* get_client closing the client after the yield without `async with` or
\* try/finally: an exception thrown into the generator skips the close.
Exit_LeakOnError(r) ==
    /\ pc[r] = "exit"
    /\ clients' = IF outcome[r].status < 400
                  THEN [clients EXCEPT ![client[r]] = "closed"]
                  ELSE clients
    /\ pc' = [pc EXCEPT ![r] = "done"]
    /\ UNCHANGED <<store, nextOid, req, client, loc, outcome, hist>>

\* get_client after its yield: `async with` closes the client, whether the
\* handler returned or raised.
Exit(r) ==
    /\ pc[r] = "exit"
    /\ clients' = [clients EXCEPT ![client[r]] = "closed"]
    /\ pc' = [pc EXCEPT ![r] = "done"]
    /\ UNCHANGED <<store, nextOid, req, client, loc, outcome, hist>>

\* await collection.create_index(keys, unique=True), then on to step `next`.
create_index(r, ix, next) ==
    LET p == Database(req[r].platform) IN
    IF ix \in store[p].indexes
    THEN /\ Goto(r, next)
         /\ UNCHANGED <<store, outcome>>
    ELSE IF CanBuild(store[p], ix)
    THEN /\ store' = [store EXCEPT ![p].indexes = @ \cup {ix}]
         /\ Goto(r, next)
         /\ UNCHANGED outcome
    ELSE /\ Respond(r, ServerError("OperationFailure"))
         /\ UNCHANGED store

\* await collection.insert_one(doc): the store assigns _id and appends, unless
\* a unique index rejects the document; then DuplicateKeyError propagates.
insert_one(r, coll, doc, response) ==
    LET p == Database(req[r].platform)
        dup == DuplicateKeys(store[p], coll, doc)
    IN IF dup = {}
       THEN /\ store' = [store EXCEPT ![p][coll] = Append(@, doc)]
            /\ nextOid' = nextOid + 1
            /\ Respond(r, response)
       ELSE /\ \E ix \in dup : Respond(r, DuplicateKeyError(ix))
            /\ UNCHANGED <<store, nextOid>>

(* --------------------------- create_article ---------------------------- *)

CreateArticle_IndexId(r) ==
    /\ pc[r] = "ca_index_id"
    /\ create_index(r, ArticleIdIndex, "ca_index_url")
    /\ UNCHANGED <<nextOid, clients, req, client, loc, hist>>

CreateArticle_IndexUrl(r) ==
    /\ pc[r] = "ca_index_url"
    /\ create_index(r, ArticleUrlIndex, "ca_find")
    /\ UNCHANGED <<nextOid, clients, req, client, loc, hist>>

CreateArticle_Find(r) ==
    /\ pc[r] = "ca_find"
    /\ IF find_one(Db(r).articles, [article_id |-> req[r].payload.id]) # <<>>
       THEN Respond(r, MutationResponse(TRUE))
       ELSE Goto(r, "ca_insert") /\ UNCHANGED outcome
    /\ UNCHANGED <<store, nextOid, clients, req, client, loc, hist>>

CreateArticle_Insert(r) ==
    /\ pc[r] = "ca_insert"
    /\ insert_one(r, "articles", ArticleDocument(nextOid, req[r].payload),
                  MutationResponse(FALSE))
    /\ UNCHANGED <<clients, req, client, loc, hist>>

(* --------------------------- create_comment ---------------------------- *)

CreateComment_Index(r) ==
    /\ pc[r] = "cc_index"
    /\ create_index(r, CommentIndex, "cc_article")
    /\ UNCHANGED <<nextOid, clients, req, client, loc, hist>>

\* create_comment without its `if not article: raise`: subscripting None
\* raises TypeError.
CreateComment_FindArticle_NoCheck(r) ==
    /\ pc[r] = "cc_article"
    /\ LET article == find_one(Db(r).articles, [article_id |-> req[r].article_id])
       IN IF article = <<>>
          THEN Respond(r, ServerError("TypeError")) /\ UNCHANGED loc
          ELSE /\ loc' = [loc EXCEPT ![r].article = article]
               /\ Goto(r, "cc_find")
               /\ UNCHANGED outcome
    /\ UNCHANGED <<store, nextOid, clients, req, client, hist>>

CreateComment_FindArticle(r) ==
    /\ pc[r] = "cc_article"
    /\ LET article == find_one(Db(r).articles, [article_id |-> req[r].article_id])
       IN IF article = <<>>
          THEN Respond(r, NotFound("Article not found")) /\ UNCHANGED loc
          ELSE /\ loc' = [loc EXCEPT ![r].article = article]
               /\ Goto(r, "cc_find")
               /\ UNCHANGED outcome
    /\ UNCHANGED <<store, nextOid, clients, req, client, hist>>

CreateComment_Find(r) ==
    /\ pc[r] = "cc_find"
    /\ IF find_one(Db(r).comments, [article_id |-> loc[r].article[1]._id,
                                    comment_id |-> req[r].payload.id]) # <<>>
       THEN Respond(r, MutationResponse(TRUE))
       ELSE Goto(r, "cc_insert") /\ UNCHANGED outcome
    /\ UNCHANGED <<store, nextOid, clients, req, client, loc, hist>>

\* Building the document reads payload.mark, which NewCommentDto does not
\* have: AttributeError is raised before insert_one is called.
CreateComment_Insert(r) ==
    /\ pc[r] = "cc_insert"
    /\ IF CreateCommentReads \subseteq NewCommentDtoFields
       THEN insert_one(r, "comments",
                       CommentDocument(nextOid, loc[r].article[1], req[r].payload),
                       MutationResponse(FALSE))
       ELSE Respond(r, ServerError("AttributeError")) /\ UNCHANGED <<store, nextOid>>
    /\ UNCHANGED <<clients, req, client, loc, hist>>

(* ---------------------------- create_reply ----------------------------- *)

CreateReply_Index(r) ==
    /\ pc[r] = "cr_index"
    /\ create_index(r, ReplyIndex, "cr_article")
    /\ UNCHANGED <<nextOid, clients, req, client, loc, hist>>

CreateReply_FindArticle(r) ==
    /\ pc[r] = "cr_article"
    /\ LET article == find_one(Db(r).articles, [article_id |-> req[r].article_id])
       IN IF article = <<>>
          THEN Respond(r, NotFound("Article not found")) /\ UNCHANGED loc
          ELSE /\ loc' = [loc EXCEPT ![r].article = article]
               /\ Goto(r, "cr_comment")
               /\ UNCHANGED outcome
    /\ UNCHANGED <<store, nextOid, clients, req, client, hist>>

CreateReply_FindComment(r) ==
    /\ pc[r] = "cr_comment"
    /\ LET comment == find_one(Db(r).comments, [article_id |-> loc[r].article[1]._id,
                                                comment_id |-> req[r].comment_id])
       IN IF comment = <<>>
          THEN Respond(r, NotFound("Comment not found")) /\ UNCHANGED loc
          ELSE /\ loc' = [loc EXCEPT ![r].comment = comment]
               /\ Goto(r, "cr_find")
               /\ UNCHANGED outcome
    /\ UNCHANGED <<store, nextOid, clients, req, client, hist>>

CreateReply_Find(r) ==
    /\ pc[r] = "cr_find"
    /\ IF find_one(Db(r).replies, [article_id |-> loc[r].article[1]._id,
                                   comment_id |-> loc[r].comment[1]._id,
                                   reply_id |-> req[r].payload.id]) # <<>>
       THEN Respond(r, MutationResponse(TRUE))
       ELSE Goto(r, "cr_insert") /\ UNCHANGED outcome
    /\ UNCHANGED <<store, nextOid, clients, req, client, loc, hist>>

CreateReply_Insert(r) ==
    /\ pc[r] = "cr_insert"
    /\ insert_one(r, "replies",
                  ReplyDocument(nextOid, loc[r].article[1], loc[r].comment[1], req[r].payload),
                  MutationResponse(FALSE))
    /\ UNCHANGED <<clients, req, client, loc, hist>>

(* ----------------------------- get_replies ----------------------------- *)

GetReplies_FindArticle(r) ==
    /\ pc[r] = "gr_article"
    /\ LET article == find_one(Db(r).articles, [article_id |-> req[r].article_id])
       IN IF article = <<>>
          THEN Respond(r, NotFound("Article not found")) /\ UNCHANGED loc
          ELSE /\ loc' = [loc EXCEPT ![r].article = article]
               /\ Goto(r, "gr_comment")
               /\ UNCHANGED outcome
    /\ UNCHANGED <<store, nextOid, clients, req, client, hist>>

\* get_replies looking the comment up by comment_id alone.
GetReplies_FindComment_AnyArticle(r) ==
    /\ pc[r] = "gr_comment"
    /\ LET comment == find_one(Db(r).comments, [comment_id |-> req[r].comment_id])
       IN IF comment = <<>>
          THEN Respond(r, NotFound("Comment not found")) /\ UNCHANGED loc
          ELSE /\ loc' = [loc EXCEPT ![r].comment = comment]
               /\ Goto(r, "gr_list")
               /\ UNCHANGED outcome
    /\ UNCHANGED <<store, nextOid, clients, req, client, hist>>

GetReplies_FindComment(r) ==
    /\ pc[r] = "gr_comment"
    /\ LET comment == find_one(Db(r).comments, [article_id |-> loc[r].article[1]._id,
                                                comment_id |-> req[r].comment_id])
       IN IF comment = <<>>
          THEN Respond(r, NotFound("Comment not found")) /\ UNCHANGED loc
          ELSE /\ loc' = [loc EXCEPT ![r].comment = comment]
               /\ Goto(r, "gr_list")
               /\ UNCHANGED outcome
    /\ UNCHANGED <<store, nextOid, clients, req, client, hist>>

\* The list comprehension raises KeyError at the first reply that lacks a
\* key reply_mongo_model_to_reply subscripts.
GetReplies_List(r) ==
    /\ pc[r] = "gr_list"
    /\ LET replies == find(Db(r).replies, [article_id |-> loc[r].article[1]._id,
                                           comment_id |-> loc[r].comment[1]._id])
       IN IF \A i \in 1..Len(replies) : HasKeys(replies[i], ReplyKeys)
          THEN Respond(r, Ok([i \in 1..Len(replies) |->
                   reply_mongo_model_to_reply(replies[i], req[r].article_id,
                                              req[r].comment_id)]))
          ELSE Respond(r, ServerError("KeyError"))
    /\ UNCHANGED <<store, nextOid, clients, req, client, loc, hist>>

(* ----------------------------- get_comment ----------------------------- *)

GetComment_FindArticle(r) ==
    /\ pc[r] = "gc_article"
    /\ LET article == find_one(Db(r).articles, [article_id |-> req[r].article_id])
       IN IF article = <<>>
          THEN Respond(r, NotFound("Article not found")) /\ UNCHANGED loc
          ELSE /\ loc' = [loc EXCEPT ![r].article = article]
               /\ Goto(r, "gc_find")
               /\ UNCHANGED outcome
    /\ UNCHANGED <<store, nextOid, clients, req, client, hist>>

GetComment_Find(r) ==
    /\ pc[r] = "gc_find"
    /\ LET result == find_one(Db(r).comments, [article_id |-> loc[r].article[1]._id,
                                               comment_id |-> req[r].comment_id])
       IN IF result = <<>>
          THEN Respond(r, NotFound("Comment not found"))
          ELSE IF HasKeys(result[1], CommentKeys)
          THEN Respond(r, Ok(<<comment_mongo_model_to_comment(result[1], req[r].article_id)>>))
          ELSE Respond(r, ServerError("KeyError"))
    /\ UNCHANGED <<store, nextOid, clients, req, client, loc, hist>>

(* ----------------------------- get_comments ---------------------------- *)

GetComments_FindArticle(r) ==
    /\ pc[r] = "gcs_article"
    /\ LET article == find_one(Db(r).articles, [article_id |-> req[r].article_id])
       IN IF article = <<>>
          THEN Respond(r, NotFound("Article not found")) /\ UNCHANGED loc
          ELSE /\ loc' = [loc EXCEPT ![r].article = article]
               /\ Goto(r, "gcs_list")
               /\ UNCHANGED outcome
    /\ UNCHANGED <<store, nextOid, clients, req, client, hist>>

GetComments_List(r) ==
    /\ pc[r] = "gcs_list"
    /\ LET comments == find(Db(r).comments, [article_id |-> loc[r].article[1]._id])
       IN IF \A i \in 1..Len(comments) : HasKeys(comments[i], CommentKeys)
          THEN Respond(r, Ok([i \in 1..Len(comments) |->
                   comment_mongo_model_to_comment(comments[i], req[r].article_id)]))
          ELSE Respond(r, ServerError("KeyError"))
    /\ UNCHANGED <<store, nextOid, clients, req, client, loc, hist>>

(* ------------------------ get_article, get_articles -------------------- *)

GetArticle_Find(r) ==
    /\ pc[r] = "ga_find"
    /\ LET result == find_one(Db(r).articles, [article_id |-> req[r].article_id])
       IN IF result = <<>>
          THEN Respond(r, NotFound("Article not found"))
          ELSE IF HasKeys(result[1], ArticleKeys)
          THEN Respond(r, Ok(<<article_mongo_model_to_article(result[1])>>))
          ELSE Respond(r, ServerError("KeyError"))
    /\ UNCHANGED <<store, nextOid, clients, req, client, loc, hist>>

GetArticles_List(r) ==
    /\ pc[r] = "gas_list"
    /\ LET articles == Db(r).articles
       IN IF \A i \in 1..Len(articles) : HasKeys(articles[i], ArticleKeys)
          THEN Respond(r, Ok([i \in 1..Len(articles) |->
                   article_mongo_model_to_article(articles[i])]))
          ELSE Respond(r, ServerError("KeyError"))
    /\ UNCHANGED <<store, nextOid, clients, req, client, loc, hist>>

(* --------------------------- specification ----------------------------- *)

\* Every step a request that has arrived can take.
Run(r) ==
    \/ CreateArticle_IndexId(r)
    \/ CreateArticle_IndexUrl(r)
    \/ CreateArticle_Find(r)
    \/ CreateArticle_Insert(r)
    \/ CreateComment_Index(r)
    \/ CreateComment_FindArticle(r)
    \/ CreateComment_Find(r)
    \/ CreateComment_Insert(r)
    \/ CreateReply_Index(r)
    \/ CreateReply_FindArticle(r)
    \/ CreateReply_FindComment(r)
    \/ CreateReply_Find(r)
    \/ CreateReply_Insert(r)
    \/ GetReplies_FindArticle(r)
    \/ GetReplies_FindComment(r)
    \/ GetReplies_List(r)
    \/ GetComment_FindArticle(r)
    \/ GetComment_Find(r)
    \/ GetComments_FindArticle(r)
    \/ GetComments_List(r)
    \/ GetArticle_Find(r)
    \/ GetArticles_List(r)
    \/ Exit(r)

Next ==
    \E r \in Requests :
        \/ \E q \in RequestInputs : Arrive(r, q)
        \/ Run(r)

Spec == Init /\ [][Next]_vars

\* The event loop runs every task that is ready: a request that has arrived
\* is not suspended forever (the store answers every call).
FairSpec == Spec /\ \A r \in Requests : WF_vars(Run(r))

(* ------------------------- vocabulary of the claims -------------------- *)

\* The response of r is decided (the handler returned or raised).
Finished(r) == pc[r] \in {"exit", "done"}

IsCreate(r) == req[r].kind \in CreateKinds

\* r ran with no other request in flight: every other request either never
\* arrived, was done before r arrived, or arrived after r was done.
Alone(r) ==
    \A s \in Requests \ {r} :
        pc[s] = "idle" \/ s \in hist[r].before \/ r \in hist[s].before

\* Two create requests for the same natural key under the same parent.
SameTarget(r1, r2) ==
    /\ req[r1].kind = req[r2].kind
    /\ req[r1].platform = req[r2].platform
    /\ req[r1].article_id = req[r2].article_id
    /\ req[r1].comment_id = req[r2].comment_id
    /\ req[r1].payload.id = req[r2].payload.id

\* The stored articles of platform p with natural key a.
ArticlesOf(p, a) == find(store[p].articles, [article_id |-> a])

\* The stored comments of platform p with key c under an article with key a.
CommentsOf(p, a, c) ==
    SelectSeq(store[p].comments,
              LAMBDA d : /\ d.comment_id = c
                         /\ \E x \in Range(ArticlesOf(p, a)) : d.article_id = x._id)

\* The stored replies of platform p with key k under comment c of article a.
RepliesOf(p, a, c, k) ==
    SelectSeq(store[p].replies,
              LAMBDA d : /\ d.reply_id = k
                         /\ \E x \in Range(CommentsOf(p, a, c)) :
                               d.comment_id = x._id /\ d.article_id = x.article_id)

\* The stored records holding the natural key of create request r.
StoredFor(r) ==
    LET q == req[r] IN
    CASE q.kind = "create_article" -> ArticlesOf(q.platform, q.payload.id)
      [] q.kind = "create_comment" -> CommentsOf(q.platform, q.article_id, q.payload.id)
      [] q.kind = "create_reply" ->
            RepliesOf(q.platform, q.article_id, q.comment_id, q.payload.id)

\* Stored document d carries the payload of create request r.
Carries(d, r) ==
    /\ d.content = req[r].payload.content
    /\ req[r].kind = "create_article" => d.url = req[r].payload.url

\* r is a first call: a valid create request that arrived when its ancestors
\* existed and its key was free, and that ran alone.
FirstCall(r) ==
    /\ IsCreate(r) /\ req[r].valid
    /\ hist[r].fresh
    /\ Alone(r)
    /\ Finished(r)

(* ------------------------------- C1 ------------------------------------ *)

\* C1 (as claimed): for create_article, create_comment and create_reply, a
\* first call from a state where the ancestors exist and the key is free
\* responds exists=false and stores one record with its payload; a second,
\* later call with the same key responds exists=true and the stored record
\* still carries the first call's payload only.
C1_IdempotentCreation ==
    \A r1 \in Requests :
        FirstCall(r1) =>
            /\ outcome[r1] = MutationResponse(FALSE)
            /\ Len(StoredFor(r1)) = 1
            /\ Carries(StoredFor(r1)[1], r1)
            /\ \A r2 \in Requests \ {r1} :
                  ( /\ SameTarget(r1, r2) /\ req[r2].valid
                    /\ r1 \in hist[r2].before
                    /\ Alone(r2) /\ Finished(r2) )
                  => outcome[r2] = MutationResponse(TRUE)

\* C1, create_comment alone: a first call under an existing article creates.
C1_CreateCommentCreates ==
    \A r \in Requests :
        (FirstCall(r) /\ req[r].kind = "create_comment")
            => outcome[r] = MutationResponse(FALSE)

(* ------------------------------- C2 ------------------------------------ *)

\* The unique index on the natural key of the records r's handler creates.
NaturalKeyIndex(kind) ==
    CASE kind = "create_article" -> ArticleIdIndex
      [] kind = "create_comment" -> CommentIndex
      [] kind = "create_reply" -> ReplyIndex

\* r passed its existence check and the store then rejected its insert on the
\* natural-key index: another request inserted the key in between.
LostRace(r) ==
    /\ IsCreate(r) /\ Finished(r)
    /\ outcome[r].detail = "DuplicateKeyError"
    /\ outcome[r].index = NaturalKeyIndex(req[r].kind).name

\* C2 (as claimed): a create request whose insert the unique index rejects
\* after both racing requests passed the existence check ends with the
\* "already exists" outcome, never with a server error.
C2_RaceSurfacedAsExists ==
    \A r \in Requests :
        (IsCreate(r) /\ Finished(r) /\ outcome[r].index = NaturalKeyIndex(req[r].kind).name)
            => outcome[r] = MutationResponse(TRUE)

(* ------------------------------- C7 ------------------------------------ *)

\* C7 (as claimed): create_article with a valid payload always ends with a
\* {success, exists} response, in every state of the store.
C7_CreateArticleNeverFails ==
    \A r \in Requests :
        (Finished(r) /\ req[r].kind = "create_article" /\ req[r].valid)
            => /\ outcome[r] \in {MutationResponse(TRUE), MutationResponse(FALSE)}
               /\ outcome[r].exists => ArticlesOf(req[r].platform, req[r].payload.id) # <<>>

(* ------------------------------- C5 ------------------------------------ *)

\* The ids of the records a list response returned.
ListedIds(r) == {outcome[r].items[i].id : i \in 1..Len(outcome[r].items)}

\* C5 (as claimed): a list request whose parent resolves succeeds and returns
\* the children stored under that parent, each carrying its own key as id and
\* the ancestor keys of the request path.
C5_ListingCompleteness ==
    \A r \in Requests :
        (Finished(r) /\ req[r].kind \in {"get_comments", "get_replies"}
                     /\ outcome[r].status # 404)
            => /\ outcome[r].status = 200
               /\ \A i \in 1..Len(outcome[r].items) :
                     /\ outcome[r].items[i].article_id = req[r].article_id
                     /\ req[r].kind = "get_replies" =>
                           outcome[r].items[i].comment_id = req[r].comment_id
               /\ \A s \in hist[r].before :
                     ( /\ req[s].kind = (IF req[r].kind = "get_replies"
                                         THEN "create_reply" ELSE "create_comment")
                       /\ req[s].platform = req[r].platform
                       /\ req[s].article_id = req[r].article_id
                       /\ req[s].comment_id = req[r].comment_id
                       /\ outcome[s] = MutationResponse(FALSE) )
                     => req[s].payload.id \in ListedIds(r)

(* ------------------------------- C3 ------------------------------------ *)

\* Every stored comment references a stored article of its platform; every
\* stored reply references a stored comment of the same article.
NoOrphanRecords ==
    \A p \in Platforms :
        /\ \A d \in Range(store[p].comments) :
              \E a \in Range(store[p].articles) : a._id = d.article_id
        /\ \A d \in Range(store[p].replies) :
              \E c \in Range(store[p].comments) :
                  c._id = d.comment_id /\ c.article_id = d.article_id

\* The records of every collection are unchanged by the step.
RecordsUnchanged ==
    \A p \in Platforms : \A coll \in Collections : store'[p][coll] = store[p][coll]

\* A step of a request that ends (or has ended) with 404 inserts nothing.
FailedLookupInsertsNothing ==
    \A r \in Requests :
        (pc'[r] # pc[r] /\ outcome'[r].status = 404) => RecordsUnchanged

\* C3: no orphans in any reachable state, under every interleaving, and a
\* create request whose ancestor lookup fails inserts no record.
C3_NoOrphans == []NoOrphanRecords /\ [][FailedLookupInsertsNothing]_vars

\* A reply has been inserted by create_reply, and another create_reply ended
\* with 404.
C3_Witness ==
    /\ \E p \in Platforms : store[p].replies # <<>>
    /\ \E r \in Requests :
          /\ req[r].kind = "create_reply" /\ Finished(r) /\ outcome[r].status = 404

(* ------------------------------- C4 ------------------------------------ *)

\* No two records of sequence docs agree on all fields of keys.
UniqueOn(docs, keys) ==
    \A i, j \in 1..Len(docs) :
        i # j => \E k \in keys : docs[i][k] # docs[j][k]

\* Database db has a unique index on collection coll over keys.
HasUniqueIndex(db, coll, keys) ==
    \E ix \in db.indexes : ix.coll = coll /\ ix.keys = keys /\ ix.unique

\* C4: in every reachable state each platform holds at most one article per
\* article_id and per url, one comment per (article, comment_id), one reply
\* per (article, comment, reply_id); and a handler about to run insert_one
\* has ensured its unique index.
C4_Uniqueness ==
    /\ \A p \in Platforms :
          /\ UniqueOn(store[p].articles, {"article_id"})
          /\ UniqueOn(store[p].articles, {"url"})
          /\ UniqueOn(store[p].comments, {"article_id", "comment_id"})
          /\ UniqueOn(store[p].replies, {"article_id", "comment_id", "reply_id"})
    /\ \A r \in Requests :
          /\ pc[r] = "ca_insert" =>
                /\ HasUniqueIndex(store[req[r].platform], "articles", <<"article_id">>)
                /\ HasUniqueIndex(store[req[r].platform], "articles", <<"url">>)
          /\ pc[r] = "cc_insert" =>
                HasUniqueIndex(store[req[r].platform], "comments",
                               <<"article_id", "comment_id">>)
          /\ pc[r] = "cr_insert" =>
                HasUniqueIndex(store[req[r].platform], "replies",
                               <<"article_id", "comment_id", "reply_id">>)

\* Two requests for one key both passed the existence check; one inserted and
\* the index rejected the other.
C4_Witness ==
    \E r1, r2 \in Requests :
        /\ r1 # r2 /\ SameTarget(r1, r2)
        /\ outcome[r1] = MutationResponse(FALSE)
        /\ LostRace(r2)

(* ------------------------------- C6 ------------------------------------ *)

\* C6 (as claimed): create_comment under an article_id that does not resolve
\* ends with 404 'Article not found' for every body, valid or not.
C6_AncestorFirstAnyBody ==
    \A r \in Requests :
        ( /\ Finished(r) /\ req[r].kind = "create_comment"
          /\ ArticlesOf(req[r].platform, req[r].article_id) = <<>> )
        => outcome[r] = NotFound("Article not found")

\* C6 (amended): with a schema-valid body, create_comment under an article_id
\* that does not resolve ends with 404 'Article not found'; a body that is
\* not schema-valid is answered 422 before the handler runs.
C6_AncestorFirstValidBody ==
    \A r \in Requests :
        (Finished(r) /\ req[r].kind = "create_comment") =>
            /\ ( /\ req[r].valid
                 /\ ArticlesOf(req[r].platform, req[r].article_id) = <<>> )
               => outcome[r] = NotFound("Article not found")
            /\ ~req[r].valid => outcome[r] = Unprocessable

\* A valid create_comment under a missing article ended with the 404.
C6_Witness ==
    \E r \in Requests :
        /\ Finished(r) /\ req[r].kind = "create_comment" /\ req[r].valid
        /\ ArticlesOf(req[r].platform, req[r].article_id) = <<>>
        /\ outcome[r] = NotFound("Article not found")

(* ------------------------------- C8 ------------------------------------ *)

\* A step changes the database of platform p only if it is a step of a
\* request addressed to p.
OnlyOwnPlatformChanges ==
    \A p \in Platforms :
        store'[p] # store[p] =>
            \E r \in Requests : pc'[r] # pc[r] /\ req[r].platform = p

\* An article id not stored in platform p does not resolve through p.
UnresolvableInPlatform ==
    \A r \in Requests :
        ( /\ Finished(r) /\ req[r].valid
          /\ req[r].kind \in {"get_article", "get_comments", "create_comment"}
          /\ ArticlesOf(req[r].platform, req[r].article_id) = <<>> )
        => outcome[r] = NotFound("Article not found")

\* C8: requests addressed to one platform leave every other platform's
\* collections unchanged, and an article id stored only in another platform
\* ends get_article, get_comments and create_comment with 'Article not found'.
C8_NamespaceIsolation == [][OnlyOwnPlatformChanges]_vars /\ []UnresolvableInPlatform

\* An article created in one platform, and a request for the same id in the
\* other platform that ended with 404.
C8_Witness ==
    \E r1, r2 \in Requests :
        /\ req[r1].kind = "create_article" /\ outcome[r1] = MutationResponse(FALSE)
        /\ req[r2].kind \in {"get_article", "get_comments", "create_comment"}
        /\ req[r2].valid /\ Finished(r2)
        /\ req[r2].platform # req[r1].platform
        /\ req[r2].article_id = req[r1].payload.id
        /\ ArticlesOf(req[r1].platform, req[r1].payload.id) # <<>>
        /\ outcome[r2] = NotFound("Article not found")

(* ------------------------------- C9 ------------------------------------ *)

DeepKinds == {"get_replies", "create_reply", "get_comment"}

ArticleLookupSteps == {"gr_article", "cr_article", "gc_article"}
CommentLookupSteps == {"gr_comment", "cr_comment", "gc_find"}

\* What the response of a finished deep request says about the store.
DeepOutcomes ==
    \A r \in Requests :
        (Finished(r) /\ req[r].valid /\ req[r].kind \in DeepKinds) =>
            LET arts == ArticlesOf(req[r].platform, req[r].article_id)
                coms == CommentsOf(req[r].platform, req[r].article_id, req[r].comment_id)
            IN /\ arts = <<>> => outcome[r] = NotFound("Article not found")
               /\ outcome[r] = NotFound("Comment not found") => arts # <<>>
               /\ outcome[r].status # 404 => (arts # <<>> /\ coms # <<>>)
               /\ (arts # <<>> /\ coms = <<>> /\ outcome[r] # NotFound("Article not found"))
                     => outcome[r] = NotFound("Comment not found")

\* The comment is looked up only after the article has resolved.
RootFirst ==
    \A r \in Requests :
        pc[r] \in CommentLookupSteps =>
            /\ loc[r].article # <<>>
            /\ loc[r].article \in
                  {<<a>> : a \in Range(ArticlesOf(req[r].platform, req[r].article_id))}

\* Each lookup step answers by the store as it is at that step.
LookupDecides ==
    \A r \in Requests :
        /\ (pc[r] \in ArticleLookupSteps /\ pc'[r] # pc[r]) =>
              ( outcome'[r] = NotFound("Article not found")
                <=> ArticlesOf(req[r].platform, req[r].article_id) = <<>> )
        /\ (pc[r] \in CommentLookupSteps /\ pc'[r] # pc[r]) =>
              ( outcome'[r] = NotFound("Comment not found")
                <=> CommentsOf(req[r].platform, req[r].article_id, req[r].comment_id) = <<>> )

\* C9: get_replies, create_reply and get_comment resolve the article first
\* and end with 'Article not found' whenever it is missing, whatever the
\* comment_id; they end with 'Comment not found' exactly when the article
\* resolves and no comment with that id exists under that article.
C9_DeepNotFound == []DeepOutcomes /\ []RootFirst /\ [][LookupDecides]_vars

\* get_replies ended with 'Comment not found' under an existing article
\* while a comment with the same comment_id exists under another article.
C9_Witness ==
    \E r \in Requests :
        /\ req[r].kind = "get_replies" /\ Finished(r)
        /\ outcome[r] = NotFound("Comment not found")
        /\ ArticlesOf(req[r].platform, req[r].article_id) # <<>>
        /\ \E d \in Range(store[req[r].platform].comments) :
              d.comment_id = req[r].comment_id

(* ------------------------------- C10 ----------------------------------- *)

InFlight(r) == pc[r] \notin {"idle", "done"}

ClientDiscipline ==
    /\ \A r \in Requests :
          /\ pc[r] = "idle" => client[r] = 0
          /\ InFlight(r) => (client[r] \in 1..Len(clients) /\ clients[client[r]] = "open")
          /\ pc[r] = "done" =>
                (client[r] \in 1..Len(clients) /\ clients[client[r]] = "closed")
    /\ \A r, s \in Requests :
          (r # s /\ client[r] # 0) => client[r] # client[s]
    /\ \A i \in 1..Len(clients) :
          clients[i] = "open" => \E r \in Requests : client[r] = i /\ InFlight(r)

\* C10: every request gets a client of its own; the client is open while the
\* request is handled and closed once it has completed, on every exit path;
\* every request that arrives completes with its client closed.
C10_ConnectionRelease ==
    /\ []ClientDiscipline
    /\ \A r \in Requests :
          (pc[r] # "idle") ~> (pc[r] = "done" /\ clients[client[r]] = "closed")

\* One request completed with an error and its client closed while another
\* request is being handled on its own open client.
C10_Witness ==
    \E r, s \in Requests :
        /\ pc[r] = "done" /\ outcome[r].status >= 400
        /\ clients[client[r]] = "closed"
        /\ InFlight(s) /\ clients[client[s]] = "open"

=============================================================================
